---- MODULE Spec2Model ----
(***************************************************************************)
(* A model of mkdocs_minify_plugin/plugin.py: the MinifyPlugin hooks that  *)
(* MkDocs calls during a build (on_pre_build, on_post_page,                *)
(* on_post_template, on_post_build), the process-wide state they share     *)
(* (MinifyPlugin.path_to_hash, MinifyPlugin.path_to_data and the module    *)
(* global DEFAULT_MINIFY_CONFIG) and the built output tree they rewrite.   *)
(*                                                                         *)
(* Text (paths, file contents, markup, digests) is a sequence of           *)
(* one-character strings, so that str.replace, str.strip, str.endswith and *)
(* slicing are computed character by character as Python computes them.    *)
(***************************************************************************)
EXTENDS Integers, Sequences, FiniteSets, TLC

VARIABLES
    config,                 \* self.config: the plugin's options of this build
    mk,                     \* the MkDocsConfig handed to the hooks
    docs,                   \* source files under docs_dir: relative path -> text
    custom,                 \* source files under theme.custom_dir: path -> text
    site,                   \* built files under site_dir: absolute path -> text
    dirs,                   \* directories that exist in the output tree
    path_to_hash,           \* MinifyPlugin.path_to_hash (class attribute)
    path_to_data,           \* MinifyPlugin.path_to_data (class attribute)
    DEFAULT_MINIFY_CONFIG,  \* the module-level dict of plugin.py
    minify_config,          \* what minify.config(...) was last called with
    warnings,               \* keys passed to log.warning in this build
    rendered,               \* the last on_post_page / on_post_template call
    renamed,                \* os.rename calls that succeeded in this build
    opened,                 \* open() calls of on_post_build: path -> what each did
    error,                  \* the exception that ended a hook, "" if none
    raised_at,              \* the path the hook was handling when it raised
    phase,                  \* where the host is in the build
    loaded,                 \* the MkDocsConfig as the host loaded it
    builds                  \* builds started in this process

vars == <<config, mk, docs, custom, site, dirs, path_to_hash, path_to_data,
          DEFAULT_MINIFY_CONFIG, minify_config, warnings, rendered, renamed,
          opened, error, raised_at, phase, loaded, builds>>

(***************************************************************************)
(* Bounds of the model.                                                    *)
(***************************************************************************)
\* builds the host runs in one process (mkdocs serve rebuilds in-process)
MaxBuilds == 2
\* hex characters of a modelled digest (hexdigest() of SHA-384 has 96)
DigestLen == 8

(***************************************************************************)
(* Text helpers.                                                           *)
(***************************************************************************)
\* s[:n]
Take(s, n) == SubSeq(s, 1, IF n < Len(s) THEN n ELSE Len(s))

\* s[n:]
Drop(s, n) == SubSeq(s, n + 1, Len(s))

\* s.startswith(p)
StartsWith(s, p) == Len(p) <= Len(s) /\ SubSeq(s, 1, Len(p)) = p

\* s.endswith(p)
EndsWith(s, p) == Len(p) <= Len(s) /\ SubSeq(s, Len(s) - Len(p) + 1, Len(s)) = p

\* sub in s
Contains(s, sub) == \E i \in 0..(Len(s) - Len(sub)) : SubSeq(s, i + 1, i + Len(sub)) = sub

\* the number of (possibly overlapping) places where sub occurs in s
Occurrences(s, sub) ==
    Cardinality({i \in 0..(Len(s) - Len(sub)) : SubSeq(s, i + 1, i + Len(sub)) = sub})

\* str.replace(old, new): every non-overlapping occurrence, left to right
RECURSIVE Replace(_, _, _)
Replace(s, old, new) ==
    IF Len(s) < Len(old) THEN s
    ELSE IF StartsWith(s, old) THEN new \o Replace(Drop(s, Len(old)), old, new)
    ELSE <<Head(s)>> \o Replace(Tail(s), old, new)

\* str.replace(old, new, 1): the first occurrence only
RECURSIVE ReplaceFirst(_, _, _)
ReplaceFirst(s, old, new) ==
    IF Len(s) < Len(old) THEN s
    ELSE IF StartsWith(s, old) THEN new \o Drop(s, Len(old))
    ELSE <<Head(s)>> \o ReplaceFirst(Tail(s), old, new)

\* str.strip("/")
RECURSIVE Strip(_)
Strip(s) ==
    IF s = <<>> THEN s
    ELSE IF Head(s) = "/" THEN Strip(Tail(s))
    ELSE IF s[Len(s)] = "/" THEN Strip(SubSeq(s, 1, Len(s) - 1))
    ELSE s

\* the characters of s other than those in drop
RECURSIVE Without(_, _)
Without(s, drop) ==
    IF s = <<>> THEN s
    ELSE IF Head(s) \in drop THEN Without(Tail(s), drop)
    ELSE <<Head(s)>> \o Without(Tail(s), drop)

\* a dict with d[k] = v
Put(d, k, v) == [p \in DOMAIN d \cup {k} |-> IF p = k THEN v ELSE d[p]]

\* the empty dict
Empty == [p \in {} |-> <<>>]

\* the elements of a sequence
Range(s) == {s[i] : i \in DOMAIN s}

\* every ordering of a finite set, as sequences without repetition
Orderings(S) == {o \in [1..Cardinality(S) -> S] : Range(o) = S}

(***************************************************************************)
(* The external libraries, as pure functions on text.                      *)
(***************************************************************************)
\* jsmin.jsmin: drops the blanks of the script
jsmin(file_data) == Without(file_data, {" "})

\* csscompressor.compress: drops blanks and the last ';' of a block
compress(file_data) == Replace(Without(file_data, {" "}), <<";", "}">>, <<"}">>)

\* minify.string("text/html", output): drops the blanks of the markup
minify_string(output) == Without(output, {" "})

HexDigits == <<"0", "1", "2", "3", "4", "5", "6", "7",
               "8", "9", "a", "b", "c", "d", "e", "f">>

CharCodes == <<" ", ";", "{", "}", "x", "y", "z", "<", ">", "p">>

Ord(c) == CHOOSE i \in DOMAIN CharCodes : CharCodes[i] = c

RECURSIVE Mix(_, _, _)
Mix(s, j, acc) ==
    IF s = <<>> THEN acc
    ELSE Mix(Tail(s), j, (acc * (2 * j + 3) + Ord(Head(s)) + j) % 16)

\* hashlib.sha384(data.encode("utf8")).hexdigest(): a deterministic digest of
\* the text, DigestLen lowercase hex characters
sha384_hexdigest(data) ==
    [j \in 1..DigestLen |-> HexDigits[Mix(data, j, (Len(data) + j) % 16) + 1]]

(***************************************************************************)
(* Constants of plugin.py.                                                 *)
(***************************************************************************)
\* EXTRAS: the MkDocsConfig key of each asset type
EXTRAS(file_type) == IF file_type = "js" THEN "extra_javascript" ELSE "extra_css"

\* MINIFIERS: the __name__ of the minifier of each asset type
MINIFIERS(file_type) == IF file_type = "js" THEN "jsmin" ELSE "compress"

\* the literal that DEFAULT_MINIFY_CONFIG is bound to when plugin.py is imported
DefaultMinifyConfigLiteral ==
    [k \in {"css-precision", "html-keep-comments", "html-keep-conditional-comments",
            "html-keep-default-attr-vals", "html-keep-document-tags",
            "html-keep-end-tags", "html-keep-whitespace", "html-keep-quotes",
            "js-precision", "js-keep-var-names", "js-version", "json-precision",
            "json-keep-numbers", "svg-keep-comments", "svg-precision",
            "xml-keep-whitespace"} |->
        IF k \in {"css-precision", "js-precision", "js-version", "json-precision",
                  "svg-precision"} THEN 0 ELSE FALSE]

\* the f-string keys f"minify_{file_type}" and f"{file_type}_files"
MinifyKey(file_type) == IF file_type = "js" THEN "minify_js" ELSE "minify_css"

FilesKey(file_type) == IF file_type = "js" THEN "js_files" ELSE "css_files"

\* f".{file_type}"
DotType(file_type) == IF file_type = "js" THEN <<".", "j", "s">> ELSE <<".", "c", "s", "s">>

\* the slice bound of file_hash[:6]
HashPrefixLen == 6

DOT_MIN == <<".", "m", "i", "n">>

DOT_HTML == <<".", "h", "t", "m", "l">>

(***************************************************************************)
(* The pure methods of MinifyPlugin.                                       *)
(***************************************************************************)
\* _minified_asset with str.replace(old, new, 1)
_minified_asset_first(file_name, file_type, file_hash) ==
    LET hash_part == IF file_hash # <<>> THEN <<".">> \o Take(file_hash, HashPrefixLen)
                     ELSE <<>>
        min_part  == IF config[MinifyKey(file_type)] THEN DOT_MIN ELSE <<>>
    IN  ReplaceFirst(file_name, DotType(file_type),
                     hash_part \o min_part \o DotType(file_type))

\* _minified_asset: "Add [.hash].min. text to the asset file name."
_minified_asset(file_name, file_type, file_hash) ==
    LET hash_part == IF file_hash # <<>> THEN <<".">> \o Take(file_hash, HashPrefixLen)
                     ELSE <<>>
        min_part  == IF config[MinifyKey(file_type)] THEN DOT_MIN ELSE <<>>
    IN  Replace(file_name, DotType(file_type),
                hash_part \o min_part \o DotType(file_type))

\* _minify_file_data_with_func
_minify_file_data_with_func(file_data, minify_func) ==
    IF minify_func = "jsmin" THEN jsmin(file_data) ELSE compress(file_data)

\* _minify_html_page
_minify_html_page(output) ==
    IF ~config["minify_html"] THEN output ELSE minify_string(output)

\* on_post_page's return value
on_post_page(output) == _minify_html_page(output)

\* on_post_template with ".html" in template_name for endswith
on_post_template_contains(output_content, template_name) ==
    IF Contains(template_name, DOT_HTML) THEN _minify_html_page(output_content)
    ELSE output_content

\* on_post_template's return value
on_post_template(output_content, template_name) ==
    IF EndsWith(template_name, DOT_HTML) THEN _minify_html_page(output_content)
    ELSE output_content

(***************************************************************************)
(* Paths and the output tree.                                              *)
(***************************************************************************)
\* Path(site_dir) / file_path, as_posix(): file_path is relative
Join(dir, file_path) == IF file_path = <<>> THEN dir ELSE dir \o <<"/">> \o file_path

\* the positions of "/" in a path
Slashes(p) == {i \in DOMAIN p : p[i] = "/"}

\* os.path.dirname
Dirname(p) ==
    IF Slashes(p) = {} THEN <<>>
    ELSE SubSeq(p, 1, (CHOOSE i \in Slashes(p) : \A j \in Slashes(p) : j <= i) - 1)

\* every directory above a path
Ancestors(p) == {SubSeq(p, 1, i - 1) : i \in Slashes(p)}

\* the path of a built file relative to site_dir, for a file below it
RelTo(dir, p) == Drop(p, Len(dir) + 1)

\* whether a built file lies below dir
Below(dir, p) == StartsWith(p, dir \o <<"/">>)

\* os.rename(src, dst) on the tree: the file moves, and replaces a file at dst
Rename(tree, src, dst) ==
    [p \in (DOMAIN tree \ {src}) \cup {dst} |-> IF p = dst THEN tree[src] ELSE tree[p]]

(***************************************************************************)
(* _minify_extra_config: the loop over config[extra].  st is the state it  *)
(* works on: [extra, path_to_hash, path_to_data, error, at].               *)
(***************************************************************************)
\* the source file the hash is generated from: "A valid path in a custom_dir
\* takes priority"; <<"missing">> stands for a path open() does not find
SourcePath(file_path) ==
    IF mk["custom_dir"] # <<>> /\ file_path \in DOMAIN custom THEN <<"custom", file_path>>
    ELSE IF file_path \in DOMAIN docs THEN <<"docs", file_path>>
    ELSE <<"missing">>

\* file.read() of the source file
SourceText(file_path) ==
    IF SourcePath(file_path)[1] = "custom" THEN custom[file_path] ELSE docs[file_path]

\* CachedData without the "if minify_flag" step
CachedData_verbatim(file_path, file_type) == SourceText(file_path)

\* the text stored in path_to_data for a rewritten entry
CachedData(file_path, file_type) ==
    IF config[MinifyKey(file_type)]
    THEN _minify_file_data_with_func(SourceText(file_path), MINIFIERS(file_type))
    ELSE SourceText(file_path)

\* Listed without the "not in files_to_minify: continue" test
Listed_any(file_path, file_type) == TRUE

\* file_path in files_to_minify
Listed(file_path, file_type) == file_path \in Range(config[FilesKey(file_type)])

\* one iteration of "for i, extra_item in enumerate(config[extra])"
RewriteEntry(file_type, i, st) ==
    LET file_path == st.extra[i]
    IN  IF ~Listed(file_path, file_type) THEN st
        ELSE IF ~config["cache_safe"]
        THEN [st EXCEPT !.extra[i] = _minified_asset(file_path, file_type, <<>>)]
        ELSE IF SourcePath(file_path) = <<"missing">>
        THEN [st EXCEPT !.error = "FileNotFoundError", !.at = file_path]
        ELSE LET file_data == CachedData(file_path, file_type)
                 file_hash == sha384_hexdigest(file_data)
             IN  [extra        |-> [st.extra EXCEPT
                                       ![i] = _minified_asset(file_path, file_type, file_hash)],
                  path_to_data |-> Put(st.path_to_data, file_path, file_data),
                  path_to_hash |-> Put(st.path_to_hash, file_path, file_hash),
                  error        |-> "",
                  at           |-> <<>>]

RECURSIVE RewriteFrom(_, _, _)
RewriteFrom(file_type, i, st) ==
    IF i > Len(st.extra) \/ st.error # "" THEN st
    ELSE RewriteFrom(file_type, i + 1, RewriteEntry(file_type, i, st))

\* _minify_extra_config(file_type, config) on the caches of c: the rewritten
\* list, the caches and the exception
_minify_extra_config(file_type, c) ==
    RewriteFrom(file_type, 1, [c EXCEPT !.extra = mk[EXTRAS(file_type)]])

\* whether on_pre_build / on_post_build handle the type
Processed(file_type) == config[MinifyKey(file_type)] \/ config["cache_safe"]

(***************************************************************************)
(* _minify: the materializer.  t is the state it works on:                 *)
(* [site, renamed, error, at].                                             *)
(***************************************************************************)
\* glob(f"{glob_dir}/*{glob_parts[1]}"): the built files and the directories
\* that match, "*" matching within one path segment and no leading "."
Glob(tree, glob_dir, tail) ==
    {p \in DOMAIN tree \cup dirs :
        /\ StartsWith(p, glob_dir \o <<"/">>)
        /\ EndsWith(p, tail)
        /\ Len(p) >= Len(glob_dir) + 1 + Len(tail)
        /\ LET star == SubSeq(p, Len(glob_dir) + 2, Len(p) - Len(tail))
               seg  == Drop(p, Len(glob_dir) + 1)
           IN  ~Contains(star, <<"/">>) /\ seg # <<>> /\ Head(seg) # "."}

\* file_path.split("*", maxsplit=1)
SplitStar(file_path) ==
    LET i == CHOOSE k \in DOMAIN file_path :
                 file_path[k] = "*" /\ \A j \in 1..(k - 1) : file_path[j] # "*"
    IN  <<SubSeq(file_path, 1, i - 1), Drop(file_path, i)>>

\* the paths one entry of file_paths adds to file_paths2
Resolve(tree, file_path) ==
    IF Contains(file_path, <<"*">>)
    THEN LET glob_parts == SplitStar(file_path)
             glob_dir   == Join(mk["site_dir"], Strip(glob_parts[1]))
         IN  Glob(tree, glob_dir, glob_parts[2])
    ELSE {Join(mk["site_dir"], file_path)}

\* file_paths2 after "remove duplicates"
file_paths2(file_type, tree) ==
    UNION {Resolve(tree, config[FilesKey(file_type)][i]) :
              i \in DOMAIN config[FilesKey(file_type)]}

\* site_file_path.replace(site_dir.as_posix(), "").strip("/")
rel_file_path(site_file_path) == Strip(Replace(site_file_path, mk["site_dir"], <<>>))

\* self.path_to_hash.get(rel_file_path, "")
LookupHash(rel) == IF rel \in DOMAIN path_to_hash THEN path_to_hash[rel] ELSE <<>>

\* LookupData as self.path_to_data.get(rel_file_path, "")
LookupData_get(rel) ==
    [found |-> TRUE,
     data  |-> IF rel \in DOMAIN path_to_data THEN path_to_data[rel] ELSE <<>>]

\* self.path_to_data[rel_file_path]: found is FALSE where it raises KeyError
LookupData(rel) ==
    IF rel \in DOMAIN path_to_data THEN [found |-> TRUE, data |-> path_to_data[rel]]
    ELSE [found |-> FALSE, data |-> <<>>]

\* Written with the cache-safe branch minifying the built file again
Written_reminified(file_type, rel, text) ==
    _minify_file_data_with_func(text, MINIFIERS(file_type))

\* what the "with open(...)" block leaves in the file
Written(file_type, rel, text) ==
    IF config["cache_safe"] THEN LookupData(rel).data
    ELSE _minify_file_data_with_func(text, MINIFIERS(file_type))

\* t.opened with one more open() of site_file_path
Opened(t, site_file_path, call) ==
    Put(t.opened, site_file_path,
        (IF site_file_path \in DOMAIN t.opened THEN t.opened[site_file_path] ELSE <<>>)
            \o <<call>>)

\* an open() that raised
Refused == [read |-> <<>>, minified |-> FALSE, wrote |-> FALSE]

\* the body of "for file_path in file_paths2" for one file
MinifyFile(file_type, site_file_path, t) ==
    LET rel == rel_file_path(site_file_path)
    IN  IF site_file_path \in dirs
        THEN [t EXCEPT !.error = "IsADirectoryError", !.at = site_file_path,
                       !.opened = Opened(t, site_file_path, Refused)]
        ELSE IF site_file_path \notin DOMAIN t.site
        THEN [t EXCEPT !.error = "FileNotFoundError", !.at = site_file_path,
                       !.opened = Opened(t, site_file_path, Refused)]
        ELSE IF config["cache_safe"] /\ ~LookupData(rel).found
        THEN [t EXCEPT !.error = "KeyError", !.at = site_file_path,
                       !.opened = Opened(t, site_file_path,
                                         [Refused EXCEPT !.read = t.site[site_file_path]])]
        ELSE LET tree == [t.site EXCEPT
                             ![site_file_path] = Written(file_type, rel, t.site[site_file_path])]
                 dst  == _minified_asset(site_file_path, file_type, LookupHash(rel))
                 log  == Opened(t, site_file_path,
                                [read     |-> t.site[site_file_path],
                                 minified |-> ~config["cache_safe"],
                                 wrote    |-> TRUE])
             IN  IF dst = site_file_path THEN [t EXCEPT !.site = tree, !.opened = log]
                 ELSE IF Dirname(dst) \notin dirs
                 THEN [t EXCEPT !.site = tree, !.error = "FileNotFoundError",
                                !.at = site_file_path, !.opened = log]
                 ELSE [site    |-> Rename(tree, site_file_path, dst),
                       renamed |-> t.renamed \cup {<<site_file_path, dst>>},
                       opened  |-> log,
                       error   |-> "",
                       at      |-> <<>>]

RECURSIVE MinifyFrom(_, _, _, _)
MinifyFrom(file_type, order, i, t) ==
    IF i > Len(order) \/ t.error # "" THEN t
    ELSE MinifyFrom(file_type, order, i + 1, MinifyFile(file_type, order[i], t))

\* file_paths2 as the appends build it from entry i on: the entries' paths
\* in the order of file_paths, a pattern's matches in any order
RECURSIVE Appended(_, _, _)
Appended(file_type, tree, i) ==
    IF i > Len(config[FilesKey(file_type)]) THEN {<<>>}
    ELSE {head \o rest :
             head \in Orderings(Resolve(tree, config[FilesKey(file_type)][i])),
             rest \in Appended(file_type, tree, i + 1)}

\* IterationOrders without "remove duplicates"
IterationOrders_list(file_type, tree) == Appended(file_type, tree, 1)

\* the lists "for file_path in file_paths2" can walk: list(set(file_paths2))
\* holds each path once, in an order the set decides
IterationOrders(file_type, tree) == Orderings(file_paths2(file_type, tree))

\* _minify(file_type, config): every result the iteration order of the set
\* file_paths2 allows
_minify(file_type, t) ==
    {MinifyFrom(file_type, order, 1, t) :
        order \in IterationOrders(file_type, t.site)}

(***************************************************************************)
(* The builds the host is given: the plugin's options, the MkDocsConfig    *)
(* and the source files.                                                   *)
(***************************************************************************)
A_JS == <<"a", ".", "j", "s">>

B_JS == <<"b", ".", "j", "s">>

D_JS == <<"d", ".", "j", "s", "/", "a", ".", "j", "s">>

C_CSS == <<"c", ".", "c", "s", "s">>

\* a script below a directory named like site_dir, and its namesake above it
V_S_JS == <<"v", "/", "s", "/", "a", ".", "j", "s">>

V_JS == <<"v", "/", "a", ".", "j", "s">>

\* every script directly below site_dir
STAR_JS == <<"*", ".", "j", "s">>

S_DIR == <<"/", "s">>

O_DIR == <<"/", "o", ".", "j", "s">>

T_DIR == <<"/", "t">>

JS_SPACED == <<"x", " ", "y">>

JS_TIGHT == <<"x", "y">>

JS_THEME == <<"z", " ", "z">>

CSS_TEXT == <<"x", " ", "{", "y", ";", " ", "}">>

PAGE_SPACED == <<"<", "p", ">", " ", "x">>

PAGE_TIGHT == <<"<", "p", ">", "x">>

T_404 == <<"4", "0", "4", ".", "h", "t", "m", "l">>

T_XML == <<"s", ".", "x", "m", "l">>

T_J2 == <<"b", ".", "h", "t", "m", "l", ".", "j">>

NoOpts == [k \in {} |-> FALSE]

\* the options of a build: config_scheme, with js_files / css_files as lists
PluginConfig(mh, mj, mc, jf, cf, mo, cs) ==
    [minify_html |-> mh, minify_js |-> mj, minify_css |-> mc, js_files |-> jf,
     css_files |-> cf, minify_opts |-> mo, cache_safe |-> cs]

\* what the hooks read of the MkDocsConfig, and the pages the host renders
HostConfig(sd, ej, ec, cd, pg, tp) ==
    [site_dir |-> sd, extra_javascript |-> ej, extra_css |-> ec, custom_dir |-> cd,
     pages |-> pg, templates |-> tp]

SourceFiles(a) ==
    [p \in {A_JS, B_JS, D_JS, V_S_JS, V_JS, C_CSS} |->
        IF p = A_JS THEN a ELSE IF p = B_JS THEN <<"z">>
        ELSE IF p = D_JS THEN <<"y", " ", "y">>
        ELSE IF p = V_S_JS THEN <<"y", " ", "z">>
        ELSE IF p = V_JS THEN <<"z", " ", "y">> ELSE CSS_TEXT]

ThemeFiles(th) == IF th THEN [p \in {A_JS} |-> JS_THEME] ELSE Empty

\* js_files with extra_javascript
JsLists == {<<<<A_JS>>, <<B_JS, A_JS>>>>, <<<<A_JS>>, <<>>>>,
            <<<<D_JS, A_JS>>, <<D_JS>>>>, <<<<>>, <<A_JS>>>>,
            <<<<V_S_JS, V_JS>>, <<V_S_JS, V_JS>>>>}

\* css_files with extra_css
CssLists == {<<<<C_CSS>>, <<C_CSS>>>>, <<<<C_CSS>>, <<>>>>}

OnePage == {PAGE_SPACED}

OneTemplate == {<<T_404, PAGE_SPACED>>}

\* builds that differ in how scripts are listed, named, stored and hashed
JsBuilds ==
    {[config |-> PluginConfig(FALSE, mj, FALSE, l[1], <<>>, NoOpts, cs),
      mk     |-> HostConfig(sd, l[2], <<>>, IF th THEN T_DIR ELSE <<>>, OnePage, OneTemplate),
      docs   |-> SourceFiles(a),
      custom |-> ThemeFiles(th)] :
        mj \in BOOLEAN, cs \in BOOLEAN, l \in JsLists, sd \in {S_DIR, O_DIR},
        a \in {JS_SPACED, JS_TIGHT}, th \in BOOLEAN}

\* builds with style sheets, alone and beside scripts
CssBuilds ==
    {[config |-> PluginConfig(mh, mj, mc, IF mj THEN <<A_JS>> ELSE <<>>, l[1], NoOpts, cs),
      mk     |-> HostConfig(S_DIR, <<A_JS>>, l[2], <<>>, OnePage, OneTemplate),
      docs   |-> SourceFiles(JS_SPACED),
      custom |-> Empty] :
        mh \in BOOLEAN, mj \in BOOLEAN, mc \in BOOLEAN, cs \in BOOLEAN, l \in CssLists}

\* cache-safe builds whose script is referenced and listed but has no source
MissingBuilds ==
    {[config |-> PluginConfig(FALSE, mj, FALSE, <<A_JS>>, <<>>, NoOpts, TRUE),
      mk     |-> HostConfig(S_DIR, <<B_JS, A_JS>>, <<>>, <<>>, OnePage, OneTemplate),
      docs   |-> [p \in {B_JS} |-> <<"z">>],
      custom |-> Empty] :
        mj \in BOOLEAN}

MinifyOpts ==
    {NoOpts,
     [k \in {"html-keep-comments"} |-> TRUE],
     [k \in {"html-keep-everything"} |-> TRUE],
     [k \in {"js-precision", "html-keep-everything"} |->
         IF k = "js-precision" THEN 2 ELSE TRUE]}

\* builds that differ in the HTML options and the pages rendered
HtmlBuilds ==
    {[config |-> PluginConfig(mh, mj, FALSE, <<>>, <<>>, mo, FALSE),
      mk     |-> HostConfig(S_DIR, <<A_JS>>, <<>>, <<>>, {PAGE_SPACED, PAGE_TIGHT},
                            {<<T_404, PAGE_SPACED>>, <<T_XML, PAGE_SPACED>>,
                             <<T_J2, PAGE_SPACED>>}),
      docs   |-> SourceFiles(JS_SPACED),
      custom |-> Empty] :
        mh \in BOOLEAN, mj \in BOOLEAN, mo \in MinifyOpts}

\* js_files with extra_javascript, where js_files reaches a.js through a
\* pattern, through a pattern and its path, or through its path twice
WildLists == {<<<<STAR_JS>>, <<A_JS>>>>, <<<<STAR_JS, A_JS>>, <<A_JS>>>>,
              <<<<A_JS, A_JS>>, <<A_JS>>>>}

\* the source files of WildBuilds: flat, or with a directory named d.js
FlatFiles(nested) ==
    [p \in {A_JS, B_JS, C_CSS} \cup (IF nested THEN {D_JS} ELSE {}) |->
        SourceFiles(JS_SPACED)[p]]

\* builds whose scripts are reached through patterns and repeated entries
WildBuilds ==
    {[config |-> PluginConfig(FALSE, m[1], FALSE, l[1], <<>>, NoOpts, m[2]),
      mk     |-> HostConfig(S_DIR, l[2], <<>>, <<>>, OnePage, OneTemplate),
      docs   |-> FlatFiles(nested),
      custom |-> Empty] :
        m \in {<<TRUE, FALSE>>, <<TRUE, TRUE>>, <<FALSE, TRUE>>}, l \in WildLists,
        nested \in BOOLEAN}

Builds == JsBuilds \cup CssBuilds \cup HtmlBuilds \cup MissingBuilds \cup WildBuilds

(***************************************************************************)
(* The hooks, in the order the host calls them.                            *)
(***************************************************************************)
NoRender == [hook |-> "none", template_name |-> <<>>, output |-> <<>>, result |-> <<>>]

Init ==
    /\ config = PluginConfig(FALSE, FALSE, FALSE, <<>>, <<>>, NoOpts, FALSE)
    /\ mk = HostConfig(S_DIR, <<>>, <<>>, <<>>, {}, {})
    /\ loaded = mk
    /\ docs = Empty
    /\ custom = Empty
    /\ site = Empty
    /\ dirs = {}
    /\ path_to_hash = Empty
    /\ path_to_data = Empty
    /\ DEFAULT_MINIFY_CONFIG = DefaultMinifyConfigLiteral
    /\ minify_config = DefaultMinifyConfigLiteral
    /\ warnings = {}
    /\ rendered = NoRender
    /\ renamed = {}
    /\ opened = Empty
    /\ error = ""
    /\ raised_at = <<>>
    /\ phase = "idle"
    /\ builds = 0

\* the host loads mkdocs.yml and creates the plugin for a build; the class
\* attributes and the module globals stay as the last build left them
LoadConfig ==
    /\ phase \in {"idle", "done", "prebuild_failed", "postbuild_failed"}
    /\ builds < MaxBuilds
    /\ \E b \in Builds :
        /\ config' = b.config
        /\ mk' = b.mk
        /\ loaded' = b.mk
        /\ docs' = b.docs
        /\ custom' = b.custom
    /\ site' = Empty
    /\ dirs' = {}
    /\ warnings' = {}
    /\ rendered' = NoRender
    /\ renamed' = {}
    /\ opened' = Empty
    /\ error' = ""
    /\ raised_at' = <<>>
    /\ phase' = "loaded"
    /\ builds' = builds + 1
    /\ UNCHANGED <<path_to_hash, path_to_data, DEFAULT_MINIFY_CONFIG, minify_config>>

\* minify_config after the loop over selected_opts: it is the dict
\* DEFAULT_MINIFY_CONFIG itself, with the recognized keys assigned
SelectedConfig(selected_opts) ==
    [k \in DOMAIN DEFAULT_MINIFY_CONFIG |->
        IF k \in DOMAIN selected_opts THEN selected_opts[k] ELSE DEFAULT_MINIFY_CONFIG[k]]

\* the keys the loop passes to log.warning
Unrecognized(selected_opts) == DOMAIN selected_opts \ DOMAIN DEFAULT_MINIFY_CONFIG

\* on_pre_build
OnPreBuild ==
    /\ phase = "loaded"
    /\ LET selected_opts == config["minify_opts"]
           c0 == [extra |-> <<>>, path_to_hash |-> path_to_hash,
                  path_to_data |-> path_to_data, error |-> "", at |-> <<>>]
           js == IF Processed("js") THEN _minify_extra_config("js", c0)
                 ELSE [c0 EXCEPT !.extra = mk["extra_javascript"]]
           css == IF js.error = "" /\ Processed("css") THEN _minify_extra_config("css", js)
                  ELSE [js EXCEPT !.extra = mk["extra_css"]]
       IN  /\ DEFAULT_MINIFY_CONFIG' = SelectedConfig(selected_opts)
           /\ minify_config' = SelectedConfig(selected_opts)
           /\ warnings' = Unrecognized(selected_opts)
           /\ mk' = [mk EXCEPT !["extra_javascript"] = js.extra, !["extra_css"] = css.extra]
           /\ path_to_hash' = css.path_to_hash
           /\ path_to_data' = css.path_to_data
           /\ error' = css.error
           /\ raised_at' = css.at
           /\ phase' = IF css.error = "" THEN "prebuilt" ELSE "prebuild_failed"
    /\ UNCHANGED <<config, loaded, docs, custom, site, dirs, rendered, renamed, opened,
                   builds>>

\* on_post_page, for a page the host rendered
OnPostPage ==
    /\ phase = "prebuilt"
    /\ \E output \in mk["pages"] :
        rendered' = [hook |-> "on_post_page", template_name |-> <<>>,
                     output |-> output, result |-> on_post_page(output)]
    /\ UNCHANGED <<config, mk, loaded, docs, custom, site, dirs, path_to_hash,
                   path_to_data, DEFAULT_MINIFY_CONFIG, minify_config, warnings,
                   renamed, opened, error, raised_at, phase, builds>>

\* on_post_template, for a template the host rendered
OnPostTemplate ==
    /\ phase = "prebuilt"
    /\ \E t \in mk["templates"] :
        rendered' = [hook |-> "on_post_template", template_name |-> t[1],
                     output |-> t[2], result |-> on_post_template(t[2], t[1])]
    /\ UNCHANGED <<config, mk, loaded, docs, custom, site, dirs, path_to_hash,
                   path_to_data, DEFAULT_MINIFY_CONFIG, minify_config, warnings,
                   renamed, opened, error, raised_at, phase, builds>>

\* the host writes the output tree: every source file is copied below site_dir
HostWriteSite ==
    /\ phase = "prebuilt"
    /\ site' = [p \in {Join(mk["site_dir"], f) : f \in DOMAIN docs} |->
                   docs[RelTo(mk["site_dir"], p)]]
    /\ dirs' = UNION {Ancestors(Join(mk["site_dir"], f)) : f \in DOMAIN docs}
    /\ rendered' = NoRender
    /\ phase' = "written"
    /\ UNCHANGED <<config, mk, loaded, docs, custom, path_to_hash, path_to_data,
                   DEFAULT_MINIFY_CONFIG, minify_config, warnings, renamed, opened,
                   error, raised_at, builds>>

\* on_post_build
OnPostBuild ==
    /\ phase = "written"
    /\ LET t0 == [site |-> site, renamed |-> {}, opened |-> Empty, error |-> "",
                  at |-> <<>>]
       IN  \E js \in (IF Processed("js") THEN _minify("js", t0) ELSE {t0}) :
           \E css \in (IF js.error = "" /\ Processed("css") THEN _minify("css", js)
                       ELSE {js}) :
               /\ site' = css.site
               /\ renamed' = css.renamed
               /\ opened' = css.opened
               /\ error' = css.error
               /\ raised_at' = css.at
               /\ phase' = IF css.error = "" THEN "done" ELSE "postbuild_failed"
    /\ UNCHANGED <<config, mk, loaded, docs, custom, dirs, path_to_hash, path_to_data,
                   DEFAULT_MINIFY_CONFIG, minify_config, warnings, rendered, builds>>

Next ==
    \/ LoadConfig
    \/ OnPreBuild
    \/ OnPostPage
    \/ OnPostTemplate
    \/ HostWriteSite
    \/ OnPostBuild

Spec == Init /\ [][Next]_vars

(***************************************************************************)
(* Vocabulary of the properties.                                           *)
(***************************************************************************)
Types == {"js", "css"}

AfterPreBuild == phase \in {"prebuilt", "written", "done", "postbuild_failed"}

AfterPostBuild == phase \in {"done", "postbuild_failed"}

\* the positions of the host's extra list that on_pre_build is to rewrite
Rewritten(t) ==
    {i \in DOMAIN loaded[EXTRAS(t)] :
        Processed(t) /\ loaded[EXTRAS(t)][i] \in Range(config[FilesKey(t)])}

\* the places where sub starts in s
Places(s, sub) == {i \in 1..(Len(s) - Len(sub) + 1) : SubSeq(s, i, i + Len(sub) - 1) = sub}

Least(S) == CHOOSE i \in S : \A j \in S : i <= j

\* '.<first 6 chars of digest>' (none for an empty digest), then '.min' (none
\* when minify_<type> is false)
Fragment(t, digest) ==
    (IF digest = <<>> THEN <<>> ELSE <<".">> \o Take(digest, 6))
        \o (IF config[MinifyKey(t)] THEN <<".", "m", "i", "n">> ELSE <<>>)

\* r is s with frag inserted immediately before each place, and nothing else
IsInsertion(r, s, places, frag) ==
    /\ Len(r) = Len(s) + Cardinality(places) * Len(frag)
    /\ \A i \in DOMAIN s :
           r[i + Len(frag) * Cardinality({p \in places : p <= i})] = s[i]
    /\ \A p \in places : \A j \in DOMAIN frag :
           r[p - 1 + Len(frag) * Cardinality({q \in places : q < p}) + j] = frag[j]

\* the paths and digests the transformer is tried on
NameInputs == {A_JS, B_JS, D_JS, C_CSS, Join(S_DIR, A_JS), Join(O_DIR, A_JS), <<"r">>}

DigestInputs == {<<>>, sha384_hexdigest(JS_TIGHT), sha384_hexdigest(CSS_TEXT)}

(***************************************************************************)
(* C1  Round-trip naming.                                                  *)
(***************************************************************************)
\* C1: when a build has run on_pre_build and on_post_build, every entry of
\* extra_<type> that is listed in <type>_files equals, as a string, the path
\* relative to site_dir of the file _minify renamed on disk, for every site_dir
\* and every asset path.
C1_RoundTripNaming ==
    AfterPostBuild =>
        \A t \in Types : \A i \in Rewritten(t) :
            \E r \in renamed :
                /\ r[1] = Join(mk["site_dir"], loaded[EXTRAS(t)][i])
                /\ Below(mk["site_dir"], r[2])
                /\ RelTo(mk["site_dir"], r[2]) = mk[EXTRAS(t)][i]

RecordedNow ==
    IF config["cache_safe"]
    THEN UNION {{loaded[EXTRAS(t)][i] : i \in Rewritten(t)} : t \in Types}
    ELSE {}

\* C4: on_post_build never reads a cache entry another build recorded: a build
\* with cache_safe off renames its assets with no hash fragment, and a
\* cache-safe build materializes only paths it recorded itself.
C4_CacheScopedToBuild ==
    AfterPostBuild =>
        \A r \in renamed :
            /\ RelTo(mk["site_dir"], r[1]) \in DOMAIN path_to_hash =>
                   RelTo(mk["site_dir"], r[1]) \in RecordedNow
            /\ ~config["cache_safe"] =>
                   \E t \in Types :
                       /\ Processed(t)
                       /\ Places(r[1], DotType(t)) # {}
                       /\ IsInsertion(r[2], r[1], Places(r[1], DotType(t)),
                                      Fragment(t, <<>>))

(***************************************************************************)
(* C5  Materialization of a listed path the host does not reference.       *)
(***************************************************************************)
\* C5: with minify_<type> on, cache_safe on or off, a path of <type>_files
\* that is absent from extra_<type> is minified and renamed on disk by
\* on_post_build, and no reference is rewritten for it.  Stated for the first
\* build of a process and for lists of paths, none a pattern, whose built
\* paths hold '.<type>' once, so that neither an earlier build's cache nor a
\* second '.<type>' is involved.
C5_ListedButUnreferenced ==
    (AfterPostBuild /\ builds = 1) =>
        \A t \in Types :
            (/\ config[MinifyKey(t)]
             /\ \A g \in Range(config[FilesKey(t)]) :
                    /\ ~Contains(g, <<"*">>)
                    /\ Cardinality(Places(Join(mk["site_dir"], g), DotType(t))) = 1) =>
                \A f \in Range(config[FilesKey(t)]) \ Range(loaded[EXTRAS(t)]) :
                    /\ \E r \in renamed :
                        /\ r[1] = Join(mk["site_dir"], f)
                        /\ r[2] \in DOMAIN site
                        /\ site[r[2]] = IF t = "js" THEN jsmin(docs[f])
                                        ELSE compress(docs[f])
                    /\ mk[EXTRAS(t)] = loaded[EXTRAS(t)]

(***************************************************************************)
(* C6  Digest scoping.                                                     *)
(***************************************************************************)
\* C6: in cache-safe mode, after on_pre_build the cache holds, under the
\* original path of each rewritten entry, the minifier's output on the source
\* text when minify_<type> is true and the source text verbatim when it is
\* false, with the SHA-384 hex digest of exactly that stored text.
C6_DigestScoping ==
    (AfterPreBuild /\ config["cache_safe"]) =>
        \A t \in Types : \A i \in Rewritten(t) :
            LET key  == loaded[EXTRAS(t)][i]
                text == IF mk["custom_dir"] # <<>> /\ key \in DOMAIN custom
                        THEN custom[key] ELSE docs[key]
                min  == IF t = "js" THEN jsmin(text) ELSE compress(text)
                kept == IF config[MinifyKey(t)] THEN min ELSE text
            IN  /\ key \in DOMAIN path_to_data
                /\ key \in DOMAIN path_to_hash
                /\ mk[EXTRAS(t)][i] # key
                /\ mk[EXTRAS(t)][i] \notin DOMAIN path_to_data
                /\ path_to_data[key] = kept
                /\ path_to_hash[key] = sha384_hexdigest(kept)

\* a cache-safe on_pre_build has stored a minified script whose source text
\* differs from it, taken from the theme's custom_dir
C6_Witness ==
    /\ phase = "prebuilt"
    /\ config["cache_safe"] /\ config["minify_js"]
    /\ Rewritten("js") # {}
    /\ A_JS \in DOMAIN custom
    /\ A_JS \in DOMAIN path_to_data
    /\ path_to_data[A_JS] = jsmin(JS_THEME)
    /\ path_to_data[A_JS] # JS_THEME

(***************************************************************************)
(* C7  The HTML hooks.                                                     *)
(***************************************************************************)
\* C7: with minify_html false on_post_page and on_post_template return their
\* input; on_post_template returns its input for a template whose name does
\* not end in '.html'; the HTML minifier is applied only when minify_html is
\* true and, for a template, the name ends in '.html'.
C7_HtmlPassThrough ==
    rendered.hook # "none" =>
        LET applies == /\ config["minify_html"]
                       /\ \/ rendered.hook = "on_post_page"
                          \/ EndsWith(rendered.template_name, <<".", "h", "t", "m", "l">>)
        IN  rendered.result = IF applies THEN minify_string(rendered.output)
                              ELSE rendered.output

\* on_post_template has returned unchanged a template whose name holds
\* '.html' but does not end in it, in a build that minifies HTML
C7_Witness ==
    /\ rendered.hook = "on_post_template"
    /\ config["minify_html"]
    /\ rendered.template_name = T_J2
    /\ rendered.result = rendered.output
    /\ minify_string(rendered.output) # rendered.output

(***************************************************************************)
(* C8  The minifier configuration of a build.                              *)
(***************************************************************************)
\* C8: the configuration on_pre_build applies is the documented defaults
\* overridden by exactly the recognized keys of this build's minify_opts; an
\* unrecognized key is warned about, is not added and does not abort the build
\* (on_pre_build raises only where a source file is missing).
C8_DefaultsPerBuild ==
    phase \in {"prebuilt", "prebuild_failed", "written", "done", "postbuild_failed"} =>
        /\ DOMAIN minify_config = DOMAIN DefaultMinifyConfigLiteral
        /\ \A k \in DOMAIN DefaultMinifyConfigLiteral :
               minify_config[k] = IF k \in DOMAIN config["minify_opts"]
                                  THEN config["minify_opts"][k]
                                  ELSE DefaultMinifyConfigLiteral[k]
        /\ warnings = DOMAIN config["minify_opts"] \ DOMAIN DefaultMinifyConfigLiteral
        /\ phase = "prebuild_failed" =>
               (error = "FileNotFoundError" /\ raised_at \notin DOMAIN docs)

(***************************************************************************)
(* C9  Cache-miss semantics in the materializer.                           *)
(***************************************************************************)
\* the output tree as the host wrote it, before on_post_build
HostTree ==
    [p \in {Join(mk["site_dir"], f) : f \in DOMAIN docs} |->
        docs[RelTo(mk["site_dir"], p)]]

\* the built files <type>_files resolves to whose key is not in path_to_data
Misses(t) ==
    {p \in file_paths2(t, HostTree) \cap DOMAIN HostTree :
        rel_file_path(p) \notin DOMAIN path_to_data}

\* C9: in cache-safe mode the lookup of the cached content of an unrecorded
\* path raises KeyError and leaves the built file with its original content
\* and name; the lookup of the digest of an unrecorded path yields the empty
\* string and raises nothing, so the file is renamed with no hash fragment.
C9_CacheMissSemantics ==
    AfterPostBuild =>
        /\ config["cache_safe"] =>
               \A t \in Types : \A p \in Misses(t) :
                   /\ p \in DOMAIN site
                   /\ site[p] = docs[RelTo(mk["site_dir"], p)]
                   /\ \A r \in renamed : r[1] # p /\ r[2] # p
                   /\ phase = "postbuild_failed"
                   /\ raised_at = p => error = "KeyError"
        /\ error = "KeyError" =>
               /\ config["cache_safe"]
               /\ \E t \in Types : raised_at \in Misses(t)
        /\ \A r \in renamed :
               rel_file_path(r[1]) \notin DOMAIN path_to_hash =>
                   \E t \in Types :
                       /\ Processed(t)
                       /\ Places(r[1], DotType(t)) # {}
                       /\ IsInsertion(r[2], r[1], Places(r[1], DotType(t)),
                                      Fragment(t, <<>>))

\* a cache-safe on_post_build has raised KeyError at a built file that no
\* on_pre_build recorded, and the file is still there
C9_Witness ==
    /\ phase = "postbuild_failed"
    /\ error = "KeyError"
    /\ config["cache_safe"]
    /\ raised_at \in DOMAIN site
    /\ rel_file_path(raised_at) \notin DOMAIN path_to_data

(***************************************************************************)
(* C10  Frame of the rewriter and the materializer.                        *)
(***************************************************************************)
\* the built files that end in '.<type>'
BuiltOfType(tree, t) == {p \in DOMAIN tree : EndsWith(p, DotType(t))}

\* what a step of on_pre_build or on_post_build leaves alone
FrameStep ==
    /\ (phase = "loaded" /\ phase' # "loaded") =>
           \A t \in Types :
               /\ Len(mk'[EXTRAS(t)]) = Len(mk[EXTRAS(t)])
               /\ \A i \in DOMAIN mk[EXTRAS(t)] :
                      mk'[EXTRAS(t)][i] # mk[EXTRAS(t)][i] =>
                          /\ Processed(t)
                          /\ mk[EXTRAS(t)][i] \in Range(config[FilesKey(t)])
               /\ ~Processed(t) =>
                      /\ mk'[EXTRAS(t)] = mk[EXTRAS(t)]
                      /\ path_to_hash' = path_to_hash
                      /\ path_to_data' = path_to_data
    /\ (phase = "written" /\ phase' # "written") =>
           \A t \in Types :
               ~Processed(t) =>
                   /\ BuiltOfType(site', t) = BuiltOfType(site, t)
                   /\ mk'[EXTRAS(t)] = mk[EXTRAS(t)]
                   /\ path_to_hash' = path_to_hash
                   /\ path_to_data' = path_to_data

\* C10: on_pre_build changes an entry of extra_<type> only if the type is
\* processed and the entry is an element of <type>_files; every other entry
\* keeps its value and position and the length never changes; when neither
\* minify_<type> nor cache_safe is on, the reference list, the cache and the
\* built file names of the type are those of an unprocessed build.
C10_Frame == [][FrameStep]_vars

\* on_pre_build has rewritten the second entry of extra_javascript and kept
\* the first, which js_files does not list, while css was not processed
C10_Witness ==
    /\ phase = "prebuilt"
    /\ loaded["extra_javascript"] = <<B_JS, A_JS>>
    /\ mk["extra_javascript"][1] = B_JS
    /\ mk["extra_javascript"][2] # A_JS
    /\ ~Processed("css")

(***************************************************************************)
(* C11  References to files a pattern reaches.                             *)
(***************************************************************************)
\* the built files the patterns of <type>_files expand to
Expanded(t) ==
    UNION {Resolve(HostTree, f) \cap DOMAIN HostTree :
              f \in {g \in Range(config[FilesKey(t)]) : Contains(g, <<"*">>)}}

\* C11: when <type>_files holds a pattern with '*' that matches a built file
\* whose relative path is an entry of the host's extra_<type>, then after
\* on_pre_build and on_post_build that entry is the relative path of the file
\* as on_post_build renamed it, a name that exists in the output tree; and in
\* cache-safe mode on_post_build raises no KeyError at a file a pattern
\* expands to.
C11_WildcardReferences ==
    AfterPostBuild =>
        \A t \in Types : Processed(t) =>
            \A p \in Expanded(t) :
                /\ phase = "done" =>
                       \A i \in DOMAIN loaded[EXTRAS(t)] :
                           loaded[EXTRAS(t)][i] = RelTo(mk["site_dir"], p) =>
                               /\ \E r \in renamed :
                                      /\ r[1] = p
                                      /\ mk[EXTRAS(t)][i] = RelTo(mk["site_dir"], r[2])
                               /\ Join(mk["site_dir"], mk[EXTRAS(t)][i]) \in DOMAIN site
                /\ config["cache_safe"] => ~(error = "KeyError" /\ raised_at = p)

(***************************************************************************)
(* C12  Each built file is processed once.                                 *)
(***************************************************************************)
\* the entries of <type>_files that resolve to the built file p
Reaching(t, p) ==
    {i \in DOMAIN config[FilesKey(t)] : p \in Resolve(HostTree, config[FilesKey(t)][i])}

\* C12: within one on_post_build every path is opened once, also when several
\* entries of <type>_files resolve to it; the minifier is applied only to the
\* text the host wrote, and never in cache-safe mode; a renamed file was
\* written once and holds the minifier's output on the host's text or, in
\* cache-safe mode, the cached content verbatim; and a build that completes
\* has opened and renamed every path the entries resolve to.
C12_ProcessedOnce ==
    AfterPostBuild =>
        /\ \A p \in DOMAIN opened :
               /\ Len(opened[p]) = 1
               /\ opened[p][1].minified =>
                      /\ ~config["cache_safe"]
                      /\ p \in DOMAIN HostTree
                      /\ opened[p][1].read = HostTree[p]
        /\ \A r \in renamed :
               /\ r[1] \in DOMAIN opened
               /\ opened[r[1]][1].wrote
               /\ \A q \in renamed : q[1] = r[1] => q = r
               /\ r[2] \in DOMAIN site
               /\ \E t \in Types :
                      /\ r[1] \in file_paths2(t, HostTree)
                      /\ site[r[2]] = IF config["cache_safe"]
                                      THEN path_to_data[rel_file_path(r[1])]
                                      ELSE IF t = "js" THEN jsmin(HostTree[r[1]])
                                      ELSE compress(HostTree[r[1]])
        /\ phase = "done" =>
               \A t \in Types : Processed(t) =>
                   \A p \in file_paths2(t, HostTree) :
                       /\ p \in DOMAIN opened
                       /\ \E r \in renamed : r[1] = p

\* an on_post_build has completed for a script that two entries of js_files
\* resolve to, a pattern among them: it was opened once, minified and renamed
C12_Witness ==
    /\ phase = "done"
    /\ ~config["cache_safe"]
    /\ Cardinality(Reaching("js", Join(mk["site_dir"], A_JS))) = 2
    /\ STAR_JS \in Range(config["js_files"])
    /\ Len(opened[Join(mk["site_dir"], A_JS)]) = 1
    /\ opened[Join(mk["site_dir"], A_JS)][1].minified
    /\ \E r \in renamed :
           /\ r[1] = Join(mk["site_dir"], A_JS)
           /\ site[r[2]] = jsmin(JS_SPACED)
           /\ site[r[2]] # JS_SPACED

====
